---- MODULE Spec2Model ----
(***************************************************************************)
(* Model of transitions.py (jira-analysis): JiraAPI.get_issues_by_filter,  *)
(* JiraAPI.get_transitions and the command-line main block.                *)
(*                                                                         *)
(* Encodings                                                               *)
(*  - a timestamp text is the tuple of the fields the format               *)
(*    '%Y-%m-%dT%H:%M:%S.%f%z' reads, reduced to <<day, hour, utc offset   *)
(*    in hours>>; a text with a field missing does not parse;              *)
(*  - an aware datetime is [local, utcoffset] in hours; Python compares    *)
(*    and subtracts aware datetimes as instants (local - utcoffset);       *)
(*  - a Python dict is a function on its keys, so an event without a       *)
(*    "duration" key is a function whose domain lacks "duration";          *)
(*  - the float total_seconds() / (24 * 3600) is the reduced fraction      *)
(*    [num, den].                                                          *)
(***************************************************************************)
EXTENDS Integers, Sequences, FiniteSets, TLC

VARIABLES
    issues,      \* get_transitions: the `issues` argument
    first_step,  \* get_transitions: the `first_step` argument
    pc,          \* get_transitions: "ready" (not running) or "loop" (line 90)
    idx,         \* get_transitions: position of the for loop of line 90
    results,     \* get_transitions: the local dict `results`
    rets,        \* outcomes of the calls made so far, oldest first
    total,       \* search API: number of issues matching the JQL
    page_size,   \* search API: the most issues the server puts in one response
    fail_at,     \* search API: the request answered with an HTTP error (0: none)
    requests,    \* get_issues_by_filter: requests sent so far
    fetched,     \* get_issues_by_filter: the local list `issues`
    start_at,    \* get_issues_by_filter: the local `start_at`
    fpc,         \* get_issues_by_filter: "idle", "loop", "returned" or "raised"
    main_pc,     \* main block: the statement to run next, or how it ended
    main_issues, \* main block: the name `issues`
    main_results,\* main block: the name `results` ([bound |-> FALSE]: not bound)
    uncaught,    \* main block: the exception that left the try statement ("": none)
    stdout       \* main block: the lines written to sys.stdout

tvars == <<issues, first_step, pc, idx, results, rets>>
fvars == <<total, page_size, fail_at, requests, fetched, start_at, fpc>>
mvars == <<main_pc, main_issues, main_results, uncaught, stdout>>
vars == <<tvars, fvars, mvars>>

-----------------------------------------------------------------------------
(* Bounds and input domains *)

\* Total number of issue records, changelog entries and field changes in the
\* input handed to get_transitions.
MaxSize == 4

\* Number of get_transitions calls the caller makes on the same input.
NumCalls == 2

FirstSteps == {"Open", "Done"}

CreatedText == <<1, 0, 0>>      \* 2024-01-01T00:00:00.000+0000
NextDayText == <<2, 0, 0>>      \* 2024-01-02T00:00:00.000+0000
SkewedText  == <<1, 1, 2>>      \* 2024-01-01T01:00:00.000+0200, i.e. 23:00 the day before
BadText     == <<2, 0>>         \* no utc offset: does not parse

Named(n) == [displayName |-> n]
Anonymous == [accountId |-> "5b10a"]   \* a user dict without displayName

IssueHeads ==
    { [key |-> h[1], creator |-> h[2], created |-> h[3]] :
        h \in { <<"X-1", Named("Alice"), CreatedText>>,
                <<"X-2", Named("Alice"), CreatedText>>,
                <<"X-1", Named("Alice"), NextDayText>>,
                <<"X-1", Anonymous, CreatedText>>,
                <<"X-1", Named("Alice"), BadText>> } }

EntryHeads ==
    { [author |-> h[1], created |-> h[2]] :
        h \in { <<Named("Bob"), NextDayText>>,
                <<Named("Bob"), SkewedText>>,
                <<Named("Bob"), BadText>>,
                <<Anonymous, NextDayText>> } }

Items ==
    { [field |-> "status", fromString |-> "Open", toString |-> "Done"],
      [field |-> "status", fromString |-> "Done", toString |-> "Open"],
      [field |-> "assignee", fromString |-> "Open", toString |-> "Done"] }

\* An input is written down as the list of its records in document order: an
\* issue, then each of its changelog entries followed by that entry's field
\* changes, then the next issue.
Tokens ==
    ({"issue"} \X IssueHeads) \cup ({"entry"} \X EntryHeads) \cup ({"item"} \X Items)

\* A list of records is an input if it starts with an issue and no field
\* change directly follows an issue.
WellNested(doc) ==
    \A n \in 1..Len(doc) :
        /\ n = 1 => doc[n][1] = "issue"
        /\ (n > 1 /\ doc[n][1] = "item") => doc[n - 1][1] # "issue"

\* The issue records (as the search API returns them) that the first n
\* records of doc spell out.
RECURSIVE Nest(_, _)
Nest(doc, n) ==
    IF n = 0 THEN <<>>
    ELSE LET sofar == Nest(doc, n - 1)
             last == Len(sofar)
             rec == doc[n][2]
         IN  CASE doc[n][1] = "issue" ->
                    Append(sofar,
                           [key |-> rec.key,
                            fields |-> [creator |-> rec.creator, created |-> rec.created],
                            changelog |-> [histories |-> <<>>]])
               [] doc[n][1] = "entry" ->
                    [sofar EXCEPT ![last].changelog.histories =
                        Append(@, [author |-> rec.author, created |-> rec.created,
                                   items |-> <<>>])]
               [] doc[n][1] = "item" ->
                    [sofar EXCEPT ![last].changelog.histories =
                        [@ EXCEPT ![Len(@)].items = Append(@, rec)]]

-----------------------------------------------------------------------------
(* Helpers of get_transitions *)

RECURSIVE Gcd(_, _)
Gcd(a, b) == IF b = 0 THEN (IF a < 0 THEN -a ELSE a) ELSE Gcd(b, a % b)

\* datetime.strptime(text, '%Y-%m-%dT%H:%M:%S.%f%z') raises ValueError unless
\* every field of the format is present.
Parses(text) == Len(text) = 3

strptime(text) == [local |-> text[1] * 24 + text[2], utcoffset |-> text[3]]

\* The instant an aware datetime denotes, in hours.
Instant(dt) == dt.local - dt.utcoffset

\* timedelta.total_seconds() of a - b.
total_seconds(a, b) == (Instant(a) - Instant(b)) * 3600

\* seconds / (24 * 3600) as a reduced fraction.
Days(seconds) ==
    LET g == Gcd(seconds, 24 * 3600)
    IN  [num |-> seconds \div g, den |-> (24 * 3600) \div g]

EmptyDict == [k \in {} |-> <<>>]

\* step["duration"] = value: adds the key, or overwrites it.
SetDuration(step, value) ==
    [k \in DOMAIN step \cup {"duration"} |-> IF k = "duration" THEN value ELSE step[k]]

Raise(exc) == [raised |-> exc]
Built(event) == [raised |-> "", event |-> event]

CreateEventSwapped(issue, first) ==
    IF "displayName" \notin DOMAIN issue.fields.creator THEN Raise("KeyError")
    ELSE IF ~Parses(issue.fields.created) THEN Raise("ValueError")
    ELSE Built([author |-> issue.fields.creator.displayName,
                timestamp |-> strptime(issue.fields.created),
                step |-> 0,
                from |-> first,
                to |-> "Create"])

\* Lines 96-102: the dict literal of the step-0 event. Its values are evaluated
\* in order, so a missing displayName raises before the timestamp is parsed.
CreateEvent(issue, first) ==
    IF "displayName" \notin DOMAIN issue.fields.creator THEN Raise("KeyError")
    ELSE IF ~Parses(issue.fields.created) THEN Raise("ValueError")
    ELSE Built([author |-> issue.fields.creator.displayName,
                timestamp |-> strptime(issue.fields.created),
                step |-> 0,
                from |-> "Create",
                to |-> first])

StatusEventLenient(change, item, step) ==
    Built([author |-> IF "displayName" \in DOMAIN change.author
                      THEN change.author.displayName ELSE "",
           timestamp |-> IF Parses(change.created)
                         THEN strptime(change.created) ELSE strptime(CreatedText),
           step |-> step,
           from |-> item.fromString,
           to |-> item.toString])

\* Lines 110-116: the dict literal of a status-change event.
StatusEvent(change, item, step) ==
    IF "displayName" \notin DOMAIN change.author THEN Raise("KeyError")
    ELSE IF ~Parses(change.created) THEN Raise("ValueError")
    ELSE Built([author |-> change.author.displayName,
                timestamp |-> strptime(change.created),
                step |-> step,
                from |-> item.fromString,
                to |-> item.toString])

\* Lines 107-118: the loop over one changelog entry's items, from item k on.
\* acc = [raised, events, step]: the exception raised so far (if any), the
\* issue's event list and the step counter.
RECURSIVE WalkItems(_, _, _)
WalkItems(acc, change, k) ==
    IF acc.raised # "" \/ k > Len(change.items) THEN acc
    ELSE IF change.items[k].field = "status"
    THEN LET ev == StatusEvent(change, change.items[k], acc.step)
         IN  IF ev.raised # ""
             THEN [acc EXCEPT !.raised = ev.raised]
             ELSE WalkItems([raised |-> "",
                             events |-> Append(acc.events, ev.event),
                             step |-> acc.step + 1], change, k + 1)
    ELSE WalkItems(acc, change, k + 1)

\* Lines 106-118: the loop over the changelog entries, from entry h on.
RECURSIVE WalkHistories(_, _, _)
WalkHistories(acc, histories, h) ==
    IF acc.raised # "" \/ h > Len(histories) THEN acc
    ELSE WalkHistories(WalkItems(acc, histories[h], 1), histories, h + 1)

MatchesLabelOnly(inner_step, previous_state, step_count) ==
    inner_step.to = previous_state

\* Line 126.
Matches(inner_step, previous_state, step_count) ==
    inner_step.to = previous_state /\ inner_step.step + 1 = step_count

DurationUnclamped(current_timestamp, previous_timestamp) ==
    Days(total_seconds(current_timestamp, previous_timestamp))

\* Lines 127-132: the value stored under "duration".
Duration(current_timestamp, previous_timestamp) ==
    IF Instant(current_timestamp) > Instant(previous_timestamp)
    THEN Days(total_seconds(current_timestamp, previous_timestamp))
    ELSE Days(0)

\* Lines 125-132: the inner loop for one event `step`, from position j on.
RECURSIVE InnerLoop(_, _, _)
InnerLoop(list, step, j) ==
    IF j > Len(list) THEN step
    ELSE InnerLoop(list,
                   IF Matches(list[j], step.from, step.step)
                   THEN SetDuration(step, Duration(step.timestamp, list[j].timestamp))
                   ELSE step,
                   j + 1)

\* Lines 120-132: the back-fill loop over the key's whole list, from position i on.
RECURSIVE BackFill(_, _)
BackFill(list, i) ==
    IF i > Len(list) THEN list
    ELSE BackFill([list EXCEPT ![i] = InnerLoop(list, list[i], 1)], i + 1)

\* Lines 91-132: the body of the loop over the issues, for one issue record.
\* [raised, results]: the exception that leaves the body (or ""), and the dict
\* as the body leaves it.
ProcessIssue(res, issue, first) ==
    LET key == issue["key"]
        r0 == IF key \in DOMAIN res THEN res ELSE res @@ (key :> <<>>)
        created == CreateEvent(issue, first)
    IN  IF created.raised # "" THEN [raised |-> created.raised, results |-> r0]
        ELSE LET w == WalkHistories([raised |-> "",
                                     events |-> Append(r0[key], created.event),
                                     step |-> 1],
                                    issue.changelog.histories, 1)
             IN  IF w.raised # ""
                 THEN [raised |-> w.raised, results |-> [r0 EXCEPT ![key] = w.events]]
                 ELSE [raised |-> "", results |-> [r0 EXCEPT ![key] = BackFill(w.events, 1)]]

\* get_transitions(issues, first_step) as a whole, from issue i on.
RECURSIVE RunFrom(_, _, _, _)
RunFrom(res, input, first, i) ==
    IF i > Len(input) THEN [raised |-> "", value |-> res]
    ELSE LET r == ProcessIssue(res, input[i], first)
         IN  IF r.raised # "" THEN [raised |-> r.raised]
             ELSE RunFrom(r.results, input, first, i + 1)

-----------------------------------------------------------------------------
(* get_transitions, called NumCalls times on the same arguments *)

\* The arguments: any input of at most MaxSize records, any first step.
Arguments ==
    /\ \E n \in 0..MaxSize :
          \E doc \in [1..n -> Tokens] :
              /\ WellNested(doc)
              /\ issues = Nest(doc, n)
    /\ first_step \in FirstSteps

NotCalled ==
    /\ pc = "ready"
    /\ idx = 0
    /\ results = EmptyDict
    /\ rets = <<>>

NotFetching ==
    /\ total = 0
    /\ page_size = 0
    /\ fail_at = 0
    /\ requests = 0
    /\ fetched = <<>>
    /\ start_at = 0
    /\ fpc = "idle"

Unbound == [bound |-> FALSE]
Bound(v) == [bound |-> TRUE, value |-> v]

NotStarted(at) ==
    /\ main_pc = at
    /\ main_issues = Unbound
    /\ main_results = Unbound
    /\ uncaught = ""
    /\ stdout = <<>>

Init == Arguments /\ NotCalled /\ NotFetching /\ NotStarted("idle")

StaleResults == results

\* Line 88: results = {}
FreshResults == EmptyDict

\* The caller calls get_transitions: line 88, then the loop of line 90 starts.
Call ==
    /\ pc = "ready"
    /\ Len(rets) < NumCalls
    /\ results' = FreshResults
    /\ idx' = 1
    /\ pc' = "loop"
    /\ UNCHANGED <<issues, first_step, rets, fvars, mvars>>

\* One iteration of the loop of line 90 that runs to its end.
Iterate ==
    /\ pc = "loop"
    /\ idx <= Len(issues)
    /\ LET r == ProcessIssue(results, issues[idx], first_step)
       IN  /\ r.raised = ""
           /\ results' = r.results
    /\ idx' = idx + 1
    /\ UNCHANGED <<issues, first_step, pc, rets, fvars, mvars>>

\* One iteration that raises: the exception leaves get_transitions, whose
\* caller gets no mapping.
IterateRaises ==
    /\ pc = "loop"
    /\ idx <= Len(issues)
    /\ LET r == ProcessIssue(results, issues[idx], first_step)
       IN  /\ r.raised # ""
           /\ results' = r.results
           /\ rets' = Append(rets, [raised |-> r.raised])
    /\ pc' = "ready"
    /\ UNCHANGED <<issues, first_step, idx, fvars, mvars>>

\* Line 134: return results
Return ==
    /\ pc = "loop"
    /\ idx > Len(issues)
    /\ rets' = Append(rets, [raised |-> "", value |-> results])
    /\ pc' = "ready"
    /\ UNCHANGED <<issues, first_step, idx, results, fvars, mvars>>

Next == Call \/ Iterate \/ IterateRaises \/ Return

Spec == Init /\ [][Next]_vars

-----------------------------------------------------------------------------
(* Properties of get_transitions *)

Max(a, b) == IF a > b THEN a ELSE b

Returned(c) == rets[c].raised = ""

RECURSIVE SumOver(_, _)
SumOver(f, n) == IF n = 0 THEN 0 ELSE f[n] + SumOver(f, n - 1)

\* Number of field changes whose field is "status" in the issue's changelog.
StatusCount(issue) ==
    LET hs == issue.changelog.histories
        perEntry == [h \in 1..Len(hs) |->
                        Cardinality({k \in 1..Len(hs[h].items) :
                                        hs[h].items[k].field = "status"})]
    IN  SumOver(perEntry, Len(hs))

HasDuration(e) == "duration" \in DOMAIN e

Identity(e) == <<e.author, e.timestamp, e.step, e.from, e.to>>

\* C1: in every returned mapping the list under an issue's key has step
\* indices 0, 1, ..., N-1 in list order, N being 1 + the number of status
\* changes in that issue's changelog.
C1_StepsContiguous ==
    \A c \in 1..Len(rets) : Returned(c) =>
        \A i \in 1..Len(issues) :
            LET list == rets[c].value[issues[i].key]
            IN  /\ Len(list) = 1 + StatusCount(issues[i])
                /\ \A j \in 1..Len(list) : list[j].step = j - 1

\* C2: in every returned mapping an event has a duration exactly when the same
\* list holds an event whose `to` is its `from` and whose step is one less;
\* the step-0 event never has one.
C2_DurationIffAdjacentPredecessor ==
    \A c \in 1..Len(rets) : Returned(c) =>
        \A k \in DOMAIN rets[c].value :
            LET list == rets[c].value[k]
            IN  \A j \in 1..Len(list) :
                    /\ HasDuration(list[j]) <=>
                          \E p \in 1..Len(list) :
                              /\ list[p].to = list[j].from
                              /\ list[p].step = list[j].step - 1
                    /\ list[j].step = 0 => ~HasDuration(list[j])

\* A returned list with an event that has a duration, and an event without one
\* whose `from` is the `to` of an event at another step distance.
C2_Witness ==
    \E c \in 1..Len(rets) : Returned(c) /\
        \E k \in DOMAIN rets[c].value :
            LET list == rets[c].value[k]
            IN  /\ \E j \in 1..Len(list) : HasDuration(list[j])
                /\ \E j, p \in 1..Len(list) :
                       /\ ~HasDuration(list[j])
                       /\ list[j].step > 0
                       /\ list[p].to = list[j].from
                       /\ list[p].step # list[j].step - 1

\* C3: every duration in a returned mapping is max(E.timestamp - P.timestamp, 0)
\* in days for a predecessor P of E: never negative, 0 when P is not earlier
\* than E, the elapsed time otherwise (24 hours make one day).
C3_DurationIsClampedElapsedDays ==
    \A c \in 1..Len(rets) : Returned(c) =>
        \A k \in DOMAIN rets[c].value :
            LET list == rets[c].value[k]
            IN  \A j \in 1..Len(list) : HasDuration(list[j]) =>
                    /\ list[j].duration.den > 0
                    /\ list[j].duration.num >= 0
                    /\ \E p \in 1..Len(list) :
                          /\ list[p].to = list[j].from
                          /\ list[p].step + 1 = list[j].step
                          /\ list[j].duration.num * 24 =
                                list[j].duration.den *
                                  Max(Instant(list[j].timestamp) - Instant(list[p].timestamp), 0)

\* A returned event whose predecessor is strictly later than it, with duration 0.
C3_Witness ==
    \E c \in 1..Len(rets) : Returned(c) /\
        \E k \in DOMAIN rets[c].value :
            LET list == rets[c].value[k]
            IN  \E j, p \in 1..Len(list) :
                    /\ HasDuration(list[j])
                    /\ list[p].to = list[j].from
                    /\ list[p].step + 1 = list[j].step
                    /\ Instant(list[p].timestamp) > Instant(list[j].timestamp)
                    /\ list[j].duration = [num |-> 0, den |-> 1]

\* C4: a returned mapping has exactly the input's distinct keys, and every
\* value is a non-empty list in strictly increasing step order.
C4_OneOrderedListPerKey ==
    \A c \in 1..Len(rets) : Returned(c) =>
        /\ DOMAIN rets[c].value = { issues[i].key : i \in 1..Len(issues) }
        /\ \A k \in DOMAIN rets[c].value :
              LET list == rets[c].value[k]
              IN  /\ Len(list) >= 1
                  /\ \A j \in 1..(Len(list) - 1) : list[j].step < list[j + 1].step

\* C5: in a returned mapping every step-0 event goes from "Create" to the
\* first_step argument, and every issue has one with its creator as author,
\* its creation time as timestamp and no duration.
C5_StepZeroEvent ==
    \A c \in 1..Len(rets) : Returned(c) =>
        /\ \A k \in DOMAIN rets[c].value :
              \A j \in 1..Len(rets[c].value[k]) :
                  LET e == rets[c].value[k][j]
                  IN  e.step = 0 => e.from = "Create" /\ e.to = first_step
        /\ \A i \in 1..Len(issues) :
              \E j \in 1..Len(rets[c].value[issues[i].key]) :
                  LET e == rets[c].value[issues[i].key][j]
                  IN  /\ e.step = 0
                      /\ e.from = "Create"
                      /\ e.to = first_step
                      /\ e.author = issues[i].fields.creator.displayName
                      /\ Instant(e.timestamp) =
                            issues[i].fields.created[1] * 24 + issues[i].fields.created[2]
                              - issues[i].fields.created[3]
                      /\ ~HasDuration(e)

\* A returned mapping for an issue whose changelog has a status change that
\* leaves first_step, and one that does not.
C5_Witness ==
    \E c \in 1..Len(rets) : Returned(c) /\
        \E i \in 1..Len(issues) :
            /\ StatusCount(issues[i]) >= 2
            /\ \E j \in 1..Len(rets[c].value[issues[i].key]) :
                  rets[c].value[issues[i].key][j].from = first_step
            /\ \E j \in 1..Len(rets[c].value[issues[i].key]) :
                  rets[c].value[issues[i].key][j].from \notin {first_step, "Create"}

\* C6: two calls on the same arguments have the same outcome: the same
\* mapping (keys, event order, every field and duration) or the same error.
C6_SecondCallEqualsFirst ==
    \A c, d \in 1..Len(rets) : rets[c] = rets[d]

\* Two calls have returned a mapping that holds a duration.
C6_Witness ==
    /\ Len(rets) >= 2
    /\ Returned(1)
    /\ \E k \in DOMAIN rets[2].value :
          \E j \in 1..Len(rets[2].value[k]) : HasDuration(rets[2].value[k][j])

Malformed(user, text) == "displayName" \notin DOMAIN user \/ Len(text) # 3

\* Some record of the input has an unparseable timestamp or lacks a display name.
AnyMalformed ==
    \E i \in 1..Len(issues) :
        \/ Malformed(issues[i].fields.creator, issues[i].fields.created)
        \/ \E h \in 1..Len(issues[i].changelog.histories) :
              Malformed(issues[i].changelog.histories[h].author,
                        issues[i].changelog.histories[h].created)

\* The same, counting a changelog entry only if it holds a status change.
AnyMalformedRead ==
    \E i \in 1..Len(issues) :
        \/ Malformed(issues[i].fields.creator, issues[i].fields.created)
        \/ \E h \in 1..Len(issues[i].changelog.histories) :
              LET entry == issues[i].changelog.histories[h]
              IN  /\ Malformed(entry.author, entry.created)
                  /\ \E k \in 1..Len(entry.items) : entry.items[k].field = "status"

\* C7 as claimed: if any issue's creation timestamp or any changelog entry's
\* timestamp does not parse, or a creator/author display name is missing,
\* every call raises and returns no mapping.
C7_AnyMalformedRaises ==
    AnyMalformed =>
        \A c \in 1..Len(rets) : ~Returned(c) /\ "value" \notin DOMAIN rets[c]

\* C7 amended: the same for a malformed issue, or a malformed changelog entry
\* that holds at least one status change.
C7_MalformedReadRaises ==
    AnyMalformedRead =>
        \A c \in 1..Len(rets) : ~Returned(c) /\ "value" \notin DOMAIN rets[c]

\* A call has raised on an input of several issues whose only malformed
\* record is a changelog entry of an issue after the first.
C7_Witness ==
    /\ Len(rets) >= 1
    /\ ~Returned(1)
    /\ Len(issues) >= 2
    /\ ~Malformed(issues[1].fields.creator, issues[1].fields.created)
    /\ \A h \in 1..Len(issues[1].changelog.histories) :
          ~Malformed(issues[1].changelog.histories[h].author,
                     issues[1].changelog.histories[h].created)
    /\ \A i \in 1..Len(issues) :
          ~Malformed(issues[i].fields.creator, issues[i].fields.created)

\* C8: during a run, an event keeps its author, timestamp, step, from and to
\* once appended, and keeps its duration once it has one.
C8_NeverMutatedAfterDuration ==
    [][pc = "loop" =>
        \A k \in DOMAIN results :
            /\ k \in DOMAIN results'
            /\ Len(results'[k]) >= Len(results[k])
            /\ \A j \in 1..Len(results[k]) :
                  /\ Identity(results'[k][j]) = Identity(results[k][j])
                  /\ HasDuration(results[k][j]) => results'[k][j] = results[k][j]
      ]_vars

-----------------------------------------------------------------------------
(* get_issues_by_filter against a search API that pages its answers *)

\* Most matching issues on the server.
MaxTotal == 250

\* The loop is followed while start_at is at most this. A run that leaves the
\* range has asked for a page past the last matching issue.
MaxStartAt == 300

PageSizes == {50, 100, 1000}

\* Line 55.
max_results == 100

Min(a, b) == IF a < b THEN a ELSE b

\* data["issues"] of the response to startAt = start, maxResults = limit: the
\* matching issues (named by their index) from index `start` on, at most
\* `limit` and at most the server's page size of them.
Page(start, limit) ==
    LET stop == Min(start + Min(limit, page_size), total)
    IN  [n \in 1..Max(stop - start, 0) |-> start + n - 1]

InitFetch ==
    /\ issues = <<>>
    /\ first_step = "Open"
    /\ NotCalled
    /\ total \in 0..MaxTotal
    /\ page_size \in PageSizes
    /\ fail_at \in 0..3
    /\ requests = 0
    /\ fetched = <<>>
    /\ start_at = 0
    /\ fpc = "loop"
    /\ NotStarted("idle")

\* Lines 58-84: one turn of the while loop whose request is answered, up to
\* the break and the return, or the increment of start_at.
Request ==
    /\ fpc = "loop"
    /\ start_at <= MaxStartAt
    /\ requests + 1 # fail_at
    /\ requests' = requests + 1
    /\ fetched' = fetched \o Page(start_at, max_results)
    /\ IF Len(fetched') >= total
       THEN fpc' = "returned" /\ start_at' = start_at
       ELSE fpc' = "loop" /\ start_at' = start_at + max_results
    /\ UNCHANGED <<tvars, total, page_size, fail_at, mvars>>

\* Lines 68-74: the server answers with an error status and
\* response.raise_for_status() raises.
RequestFails ==
    /\ fpc = "loop"
    /\ start_at <= MaxStartAt
    /\ requests + 1 = fail_at
    /\ requests' = requests + 1
    /\ fpc' = "raised"
    /\ UNCHANGED <<tvars, total, page_size, fail_at, fetched, start_at, mvars>>

NextFetch == Request \/ RequestFails

SpecFetch == InitFetch /\ [][NextFetch]_vars

\* C9: against a server that answers every request, the loop ends having collected every matching issue once, in order,
\* with none skipped. Stated so that a finite run decides it: the list
\* returned is the full list, and while the loop runs every matching issue is
\* either collected or at an index the loop has yet to ask for (start_at only
\* grows, so an uncollected issue below it is in no later answer and
\* len(issues) >= total is never reached).
C9_FullSetNoneSkipped ==
    fail_at = 0 =>
        /\ fpc = "returned" => fetched = [n \in 1..total |-> n - 1]
        /\ fpc = "loop" =>
              \A i \in 0..(total - 1) :
                  i >= start_at \/ \E n \in 1..Len(fetched) : fetched[n] = i

-----------------------------------------------------------------------------
(* The main block: fetch, reconstruct, write the report *)

\* Line 169.
Header == <<"Key", "Author", "Step", "Timestamp", "From", "To", "Duration", "Count">>

\* Lines 172-181: the row of one transition; a missing duration is written ''.
Row(key, transition) ==
    <<key, transition.author, transition.step, transition.timestamp,
      transition.from, transition.to,
      IF "duration" \in DOMAIN transition THEN transition.duration ELSE "", 1>>

\* The keys of the mapping in the order a dict keeps them: that of their
\* first insertion, i.e. of their first occurrence among the first n issues.
RECURSIVE KeysInOrder(_, _)
KeysInOrder(input, n) ==
    IF n = 0 THEN <<>>
    ELSE LET before == KeysInOrder(input, n - 1)
         IN  IF \E m \in 1..Len(before) : before[m] = input[n].key
             THEN before
             ELSE Append(before, input[n].key)

\* Lines 170-182: the rows of the mapping, for the keys from position n on.
RECURSIVE Rows(_, _, _)
Rows(mapping, keys, n) ==
    IF n > Len(keys) THEN <<>>
    ELSE [j \in 1..Len(mapping[keys[n]]) |-> Row(keys[n], mapping[keys[n]][j])]
         \o Rows(mapping, keys, n + 1)

InitMain == Arguments /\ NotCalled /\ NotFetching /\ NotStarted("fetch")

\* Line 161, get_issues_by_filter returns: the issues are those of the input.
MainFetch ==
    /\ main_pc = "fetch"
    /\ main_issues' = Bound(issues)
    /\ main_pc' = "transitions"
    /\ UNCHANGED <<tvars, fvars, main_results, uncaught, stdout>>

\* Line 161, get_issues_by_filter raises a RequestException: lines 184-185
\* catch it and print the error.
MainFetchFails ==
    /\ main_pc = "fetch"
    /\ stdout' = Append(stdout, <<"Error making API request">>)
    /\ main_pc' = "reported"
    /\ UNCHANGED <<tvars, fvars, main_issues, main_results, uncaught>>

\* Lines 164-165, no exception: `results` is bound only if `issues` is truthy.
MainTransitions ==
    /\ main_pc = "transitions"
    /\ IF main_issues.value # <<>>
       THEN LET r == RunFrom(FreshResults, main_issues.value, first_step, 1)
            IN  /\ r.raised = ""
                /\ main_results' = Bound(r.value)
       ELSE UNCHANGED main_results
    /\ main_pc' = "header"
    /\ UNCHANGED <<tvars, fvars, main_issues, uncaught, stdout>>

\* Lines 164-165, get_transitions raises: a ValueError or KeyError is not a
\* RequestException, so it leaves the try statement.
MainTransitionsRaises ==
    /\ main_pc = "transitions"
    /\ main_issues.value # <<>>
    /\ LET r == RunFrom(FreshResults, main_issues.value, first_step, 1)
       IN  /\ r.raised # ""
           /\ uncaught' = r.raised
    /\ main_pc' = "crashed"
    /\ UNCHANGED <<tvars, fvars, main_issues, main_results, stdout>>

\* Lines 168-169: the header row.
MainHeader ==
    /\ main_pc = "header"
    /\ stdout' = Append(stdout, Header)
    /\ main_pc' = "rows"
    /\ UNCHANGED <<tvars, fvars, main_issues, main_results, uncaught>>

\* Lines 170-182: one row per transition.
MainRows ==
    /\ main_pc = "rows"
    /\ main_results.bound
    /\ stdout' = stdout \o Rows(main_results.value,
                                 KeysInOrder(main_issues.value, Len(main_issues.value)), 1)
    /\ main_pc' = "done"
    /\ UNCHANGED <<tvars, fvars, main_issues, main_results, uncaught>>

\* Line 170 when `results` was never bound: NameError, which is not caught.
MainRowsNameError ==
    /\ main_pc = "rows"
    /\ ~main_results.bound
    /\ uncaught' = "NameError"
    /\ main_pc' = "crashed"
    /\ UNCHANGED <<tvars, fvars, main_issues, main_results, stdout>>

NextMain ==
    \/ MainFetch
    \/ MainFetchFails
    \/ MainTransitions
    \/ MainTransitionsRaises
    \/ MainHeader
    \/ MainRows
    \/ MainRowsNameError

SpecMain == InitMain /\ [][NextMain]_vars

\* Number of transition events in a mapping.
EventCount(mapping) ==
    LET keys == KeysInOrder(main_issues.value, Len(main_issues.value))
    IN  SumOver([n \in 1..Len(keys) |-> Len(mapping[keys[n]])], Len(keys))

ReportLines == { n \in 1..Len(stdout) : Len(stdout[n]) = Len(Header) }

\* C10: a run of the main block ends either with an error raised or reported
\* and neither the header nor a row written, or without error having written
\* the header and then one row per transition of the mapping.
C10_ErrorOrWholeReport ==
    main_pc \in {"done", "reported", "crashed"} =>
        \/ /\ main_pc \in {"reported", "crashed"}
           /\ ReportLines = {}
        \/ /\ main_pc = "done"
           /\ uncaught = ""
           /\ main_results.bound
           /\ Len(stdout) = 1 + EventCount(main_results.value)
           /\ stdout[1] = Header
           /\ \A n \in 2..Len(stdout) :
                 \E k \in DOMAIN main_results.value :
                     \E j \in 1..Len(main_results.value[k]) :
                         stdout[n] = Row(k, main_results.value[k][j])

====
